---- MODULE Spec2Model ----
(***************************************************************************)
(* Conway's Game of Life on a toroidal grid (ymotongpoo/lifegame, main.go). *)
(*                                                                         *)
(* A Field is a record [cs, w, h] whose cs is the ADDRESS of a cell array   *)
(* in heap (Go slices are references, so storage identity is state).  A    *)
(* cell array is a sequence of rows, a row a sequence of BOOLEAN; the Go   *)
(* index i is the TLA+ index i + 1.  A panic of the Go runtime (index out  *)
(* of range) is the value ok = FALSE of the operator that raised it.       *)
(***************************************************************************)
EXTENDS Integers, Sequences, FiniteSets

VARIABLES heap,    \* cell arrays by address
          l,       \* the Life: [cur, next, gen]
          ctor,    \* arguments of the constructor call that built l
          calls,   \* number of Life.Next calls made by the driver
          wrote,   \* addresses of the arrays Life.Next has written to
          rejected,\* number of Set calls the last Life.Next saw rejected
          out,     \* the frame last printed by Life.Print
          pc,      \* position of the driver
          arg,     \* arguments of the function under call
          ret      \* its result

vars == <<heap, l, ctor, calls, wrote, rejected, out, pc, arg, ret>>

\* ---------------------------------------------------------------- bounds
MaxH == 3
MaxW == 2
MaxGen == 3
MaxFieldH == 3
MaxFieldW == 3
MaxPatRows == 3
MaxPatCols == 2
MaxFileLen == 6

\* ------------------------------------------------------- program constants
AliveGlyph == 111
DeadGlyph == 32
LF == 10

\* ---------------------------------------------------------------- helpers
\* Go's x % y truncates toward zero: the result has the sign of x.
GoRem(x, y) == IF x >= 0 THEN x % y ELSE 0 - ((0 - x) % y)

NoErr == ""

\* make([]bool, w): w cells, all false.
BlankRow(w) == [j \in 1..w |-> FALSE]

\* ------------------------------------------------------------------ Field
\* NewField(h, w): allocates h rows of w dead cells at a fresh address.
NewField(hp, h, w) ==
    [heap |-> Append(hp, [i \in 1..h |-> BlankRow(w)]),
     f    |-> [cs |-> Len(hp) + 1, w |-> w, h |-> h]]

\* f.cs[r][c] = b, with Go's slice bounds checks.
InRange(cs, r, c) ==
    /\ r >= 0 /\ r < Len(cs)
    /\ c >= 0 /\ c < Len(cs[r + 1])

\* Field.Set: rejects a write outside [0,h) x [0,w), never wraps.
Set(hp, f, r, c, b) ==
    IF r < 0 \/ r >= f.h \/ c < 0 \/ c >= f.w
    THEN [heap |-> hp, err |-> "out of field", ok |-> TRUE]
    ELSE IF InRange(hp[f.cs], r, c)
         THEN [heap |-> [hp EXCEPT ![f.cs][r + 1][c + 1] = b],
               err |-> NoErr, ok |-> TRUE]
         ELSE [heap |-> hp, err |-> NoErr, ok |-> FALSE]

\* Field.Alive: wraps the indices with (x + n) % n, then indexes f.cs.
Alive(hp, f, r, c) ==
    LET r1 == GoRem(r + f.h, f.h)
        c1 == GoRem(c + f.w, f.w)
    IN  IF InRange(hp[f.cs], r1, c1)
        THEN [ok |-> TRUE, val |-> hp[f.cs][r1 + 1][c1 + 1]]
        ELSE [ok |-> FALSE, val |-> FALSE]

\* The (i, j) pairs in the order the two loops of NextGen visit them.
Offsets == << <<-1, -1>>, <<-1, 0>>, <<-1, 1>>,
              << 0, -1>>, << 0, 0>>, << 0, 1>>,
              << 1, -1>>, << 1, 0>>, << 1, 1>> >>

\* The test that keeps the cell itself out of the neighbour scan.
IsNeighbour_And(i, j) == i # 0 /\ j # 0

IsNeighbour(i, j) == i # 0 \/ j # 0

\* The loops of NextGen from offset number k on, alive neighbours so far n.
RECURSIVE CountAlive(_, _, _, _, _, _)
CountAlive(hp, f, r, c, k, n) ==
    IF k > Len(Offsets) THEN [ok |-> TRUE, n |-> n]
    ELSE LET i == Offsets[k][1]
             j == Offsets[k][2]
         IN  IF ~IsNeighbour(i, j)
             THEN CountAlive(hp, f, r, c, k + 1, n)
             ELSE LET a == Alive(hp, f, r + i, c + j)
                  IN  IF ~a.ok THEN [ok |-> FALSE, n |-> n]
                      ELSE CountAlive(hp, f, r, c, k + 1,
                                      IF a.val THEN n + 1 ELSE n)

\* Field.NextGen: alive == 3 || alive == 2 && f.Alive(r, c).
NextGen(hp, f, r, c) ==
    LET cnt == CountAlive(hp, f, r, c, 1, 0)
    IN  IF ~cnt.ok THEN [ok |-> FALSE, val |-> FALSE]
        ELSE IF cnt.n = 3 THEN [ok |-> TRUE, val |-> TRUE]
        ELSE IF cnt.n = 2 THEN Alive(hp, f, r, c)
        ELSE [ok |-> TRUE, val |-> FALSE]

\* One row of Field.Print: a buffer of f.w bytes, one glyph per cell.
PrintRow(f, row) ==
    IF Len(row) > f.w THEN [ok |-> FALSE, line |-> <<>>]
    ELSE [ok |-> TRUE,
          line |-> [j \in 1..f.w |->
                      IF j <= Len(row) /\ row[j] THEN AliveGlyph
                      ELSE IF j <= Len(row) THEN DeadGlyph ELSE 0]]

\* Field.Print: the lines written to stdout, one per row of f.cs.
FieldPrint(hp, f) ==
    LET cs == hp[f.cs]
    IN  [ok    |-> \A i \in 1..Len(cs) : PrintRow(f, cs[i]).ok,
         lines |-> [i \in 1..Len(cs) |-> PrintRow(f, cs[i]).line]]

\* ------------------------------------------------------------------- Life
NoField == [cs |-> 0, w |-> 0, h |-> 0]

NoLife == [cur |-> NoField, next |-> NoField, gen |-> 0]

\* NewLife(h, w, init): init is the address of the caller's array.  Both
\* buffers are allocated first; then the size test, whose init[0] panics on
\* an array without rows; then cur.cs = init stores the caller's array itself.
NewLife(hp, h, w, init) ==
    LET a == NewField(hp, h, w)
        b == NewField(a.heap, h, w)
    IN  IF Len(hp[init]) # h
        THEN [heap |-> b.heap, l |-> NoLife, err |-> "Wrong init size",
              ok |-> TRUE]
        ELSE IF Len(hp[init]) = 0
        THEN [heap |-> b.heap, l |-> NoLife, err |-> NoErr, ok |-> FALSE]
        ELSE IF Len(hp[init][1]) # w
        THEN [heap |-> b.heap, l |-> NoLife, err |-> "Wrong init size",
              ok |-> TRUE]
        ELSE [heap |-> b.heap,
              l    |-> [cur  |-> [a.f EXCEPT !.cs = init],
                        next |-> b.f,
                        gen  |-> 0],
              err  |-> NoErr, ok |-> TRUE]

\* The body of the loops of Life.Next, l.next.Set(i, j, l.cur.NextGen(i, j)):
\* it reads the heap as the earlier iterations left it, and drops the error
\* Set returns.  acc carries the heap, the number of rejected Set calls and
\* the addresses written so far.
NextCell(acc, life, i, j) ==
    LET v == NextGen(acc.heap, life.cur, i, j)
        s == Set(acc.heap, life.next, i, j, v.val)
    IN  IF ~v.ok \/ ~s.ok THEN [acc EXCEPT !.ok = FALSE]
        ELSE IF s.err # NoErr
        THEN [acc EXCEPT !.rejected = acc.rejected + 1]
        ELSE [heap |-> s.heap, rejected |-> acc.rejected,
              wrote |-> acc.wrote \cup {life.next.cs}, ok |-> TRUE]

\* The inner loop, for j := range r, from column j on; n is len(r).
RECURSIVE NextRow(_, _, _, _, _)
NextRow(acc, life, i, j, n) ==
    IF j >= n \/ ~acc.ok THEN acc
    ELSE NextRow(NextCell(acc, life, i, j), life, i, j + 1, n)

\* The outer loop, for i, r := range l.cur.cs, from row i on; m is the
\* number of rows.
RECURSIVE NextRows(_, _, _, _)
NextRows(acc, life, i, m) ==
    IF i >= m \/ ~acc.ok THEN acc
    ELSE NextRows(NextRow(acc, life, i, 0,
                          Len(acc.heap[life.cur.cs][i + 1])),
                  life, i + 1, m)

\* The buffers exchanged, no allocation, as an earlier revision did it.
NextBuffers_Swap(hp, life) ==
    [heap |-> hp,
     l    |-> [cur |-> life.next, next |-> life.cur, gen |-> life.gen + 1]]

\* The counter stepped only when the generation differs from the last one.
NextBuffers_GenIfChanged(hp, life) ==
    LET n == NewField(hp, life.next.w, life.next.h)
    IN  [heap |-> n.heap,
         l    |-> [cur  |-> life.next,
                   next |-> n.f,
                   gen  |-> IF hp[life.next.cs] = hp[life.cur.cs]
                            THEN life.gen ELSE life.gen + 1]]

\* The end of Life.Next: l.cur = l.next; l.next = NewField(l.cur.w, l.cur.h);
\* l.gen++.  NewField takes (h, w): it is handed the width as its height.
NextBuffers(hp, life) ==
    LET n == NewField(hp, life.next.w, life.next.h)
    IN  [heap |-> n.heap,
         l    |-> [cur  |-> life.next,
                   next |-> n.f,
                   gen  |-> life.gen + 1]]

\* Life.Next.
LifeNext(hp, life) ==
    LET lp == NextRows([heap |-> hp, rejected |-> 0, wrote |-> {},
                        ok |-> TRUE],
                       life, 0, Len(hp[life.cur.cs]))
        nb == NextBuffers(lp.heap, life)
    IN  IF ~lp.ok
        THEN [heap |-> lp.heap, l |-> life, rejected |-> lp.rejected,
              wrote |-> lp.wrote, ok |-> FALSE]
        ELSE [heap |-> nb.heap, l |-> nb.l, rejected |-> lp.rejected,
              wrote |-> lp.wrote, ok |-> TRUE]

\* Life.Print: the header with the generation, then the current field.
LifePrint(hp, life) ==
    LET p == FieldPrint(hp, life.cur)
    IN  [ok |-> p.ok, gen |-> life.gen, lines |-> p.lines]

\* ------------------------------------------------------- initial patterns
\* The h x w patterns a caller builds, as main does with make([][]bool, h).
Rect(h, w) == [1..h -> [1..w -> BOOLEAN]]

\* main's beacon: six cells set in a blank h x w array.
BeaconCells == {<<1, 1>>, <<1, 2>>, <<2, 1>>, <<3, 4>>, <<4, 3>>, <<4, 4>>}

Beacon(h, w) ==
    [i \in 1..h |-> [j \in 1..w |-> <<i - 1, j - 1>> \in BeaconCells]]

\* Sizes of the beacon's grid: main's 10 x 10, and smaller ones that hold it.
BeaconDims == {<<10, 10>>, <<6, 6>>, <<6, 7>>, <<7, 6>>}

NoOut == [ok |-> TRUE, gen |-> 0 - 1, lines |-> <<>>]

NoArg == [op |-> "none"]

NoRet == [op |-> "none"]

\* The Life a caller gets from NewLife(h, w, p) with p at address 1.
Created(h, w, p) ==
    LET r == NewLife(<<p>>, h, w, 1)
    IN  /\ r.ok /\ r.err = NoErr
        /\ heap = r.heap
        /\ l = r.l
        /\ ctor = [h |-> h, w |-> w, init |-> p, addr |-> 1]
        /\ calls = 0
        /\ wrote = {}
        /\ rejected = 0
        /\ out = NoOut
        /\ pc = "ready"
        /\ arg = NoArg
        /\ ret = NoRet

\* After construction: every pattern of every size up to MaxH x MaxW (the
\* grids NewLifeFromFile builds are among them), and main's beacon.
Init ==
    \/ \E h \in 1..MaxH, w \in 1..MaxW : \E p \in Rect(h, w) : Created(h, w, p)
    \/ \E d \in BeaconDims : Created(d[1], d[2], Beacon(d[1], d[2]))

\* ------------------------------------------------------------ the driver
\* main's loop body, second half: l.Next().
Advance ==
    /\ pc = "ready"
    /\ calls < MaxGen
    /\ \E r \in {LifeNext(heap, l)} :
           /\ heap' = r.heap
           /\ l' = r.l
           /\ rejected' = r.rejected
           /\ wrote' = wrote \cup r.wrote
           /\ pc' = IF r.ok THEN "ready" ELSE "panic"
    /\ calls' = calls + 1
    /\ UNCHANGED <<ctor, out, arg, ret>>

\* main's loop body, first half: l.Print().
DoPrint ==
    /\ pc = "ready"
    /\ \E p \in {LifePrint(heap, l)} :
           /\ out' = p
           /\ pc' = IF p.ok THEN "ready" ELSE "panic"
    /\ UNCHANGED <<heap, l, ctor, calls, wrote, rejected, arg, ret>>

Next == Advance \/ DoPrint

Spec == Init /\ [][Next]_vars

\* ------------------------------------------------- calls on a Field alone
\* Row and column arguments tried on a side of length n: below -n, the wrap
\* range -n..-1, the grid 0..n-1, and n itself.
ProbeRange(n) == (0 - n - 1)..n

\* A caller asks l.cur.Alive(r, c).
CallAlive ==
    /\ pc = "ready"
    /\ \E r \in ProbeRange(l.cur.h), c \in ProbeRange(l.cur.w) :
          \E a \in {Alive(heap, l.cur, r, c)} :
              /\ arg' = [op |-> "Alive", r |-> r, c |-> c]
              /\ ret' = [op |-> "Alive", ok |-> a.ok, val |-> a.val]
              /\ pc' = IF a.ok THEN "called" ELSE "panic"
    /\ UNCHANGED <<heap, l, ctor, calls, wrote, rejected, out>>

\* A caller asks l.cur.NextGen(r, c) for a cell of the grid, as Life.Next does.
CallNextGen ==
    /\ pc = "ready"
    /\ \E r \in 0..(l.cur.h - 1), c \in 0..(l.cur.w - 1) :
          \E a \in {NextGen(heap, l.cur, r, c)} :
              /\ arg' = [op |-> "NextGen", r |-> r, c |-> c]
              /\ ret' = [op |-> "NextGen", ok |-> a.ok, val |-> a.val]
              /\ pc' = IF a.ok THEN "called" ELSE "panic"
    /\ UNCHANGED <<heap, l, ctor, calls, wrote, rejected, out>>

\* The field under call: the current field of a new Life, of every pattern
\* of every size up to MaxFieldH x MaxFieldW, or of main's beacon.
InitField ==
    \/ \E h \in 1..MaxFieldH, w \in 1..MaxFieldW :
          \E p \in Rect(h, w) : Created(h, w, p)
    \/ \E d \in BeaconDims : Created(d[1], d[2], Beacon(d[1], d[2]))

NextField == CallAlive \/ CallNextGen

SpecField == InitField /\ [][NextField]_vars

\* ------------------------------------------------------ calls of NewLife
\* Rows and arrays a caller may hand to NewLife, rectangular or not.
PatRows == UNION {[1..m -> BOOLEAN] : m \in 0..MaxPatCols}

Patterns == UNION {[1..n -> PatRows] : n \in 0..MaxPatRows}

\* Before the call: the caller's array is the only one on the heap.
InitNewLife ==
    /\ \E h \in 1..MaxH, w \in 1..MaxW, p \in Patterns :
          /\ arg = [op |-> "NewLife", h |-> h, w |-> w, init |-> p]
          /\ heap = <<p>>
    /\ l = NoLife
    /\ ctor = [h |-> 0, w |-> 0, init |-> <<>>, addr |-> 0]
    /\ calls = 0
    /\ wrote = {}
    /\ rejected = 0
    /\ out = NoOut
    /\ pc = "start"
    /\ ret = NoRet

\* A caller asks NewLife(h, w, init).
CallNewLife ==
    /\ pc = "start"
    /\ arg.op = "NewLife"
    /\ \E r \in {NewLife(heap, arg.h, arg.w, 1)} :
           /\ heap' = r.heap
           /\ l' = r.l
           /\ ret' = [op |-> "NewLife", ok |-> r.ok, err |-> r.err]
           /\ pc' = IF ~r.ok THEN "panic"
                    ELSE IF r.err = NoErr THEN "ready" ELSE "failed"
    /\ ctor' = [h |-> arg.h, w |-> arg.w, init |-> arg.init, addr |-> 1]
    /\ UNCHANGED <<calls, wrote, rejected, out, arg>>

NextNewLife == CallNewLife

SpecNewLife == InitNewLife /\ [][NextNewLife]_vars

\* ---------------------------------------------- calls of NewLifeFromFile
\* bytesToBool: true exactly for the byte 'o'.
bytesToBool(line) == [i \in 1..Len(line) |-> line[i] = AliveGlyph]

\* bufio.Reader.ReadBytes('\n') at offset pos (1-based) of data: the bytes
\* up to and including the next '\n'; without one, the rest and io.EOF.
ReadBytes(data, pos) ==
    LET nl == {k \in pos..Len(data) : data[k] = LF}
    IN  IF nl = {}
        THEN [line |-> SubSeq(data, pos, Len(data)), err |-> "EOF",
              pos |-> Len(data) + 1]
        ELSE LET e == CHOOSE k \in nl : \A m \in nl : k <= m
             IN  [line |-> SubSeq(data, pos, e), err |-> NoErr,
                  pos |-> e + 1]

\* The for loop of NewLifeFromFile: a read error ends it without a word, a
\* line of another length than the first is an error.
RECURSIVE ReadRows(_, _, _, _)
ReadRows(data, pos, colsize, init) ==
    LET rd == ReadBytes(data, pos)
    IN  IF rd.err # NoErr THEN [init |-> init, err |-> NoErr]
        ELSE IF Len(rd.line) # colsize
        THEN [init |-> init, err |-> "column size is not appropriate"]
        ELSE ReadRows(data, rd.pos, colsize,
                      Append(init, bytesToBool(rd.line)))

\* NewLifeFromFile(path), file the content found at path (or none).
NewLifeFromFile(hp, file) ==
    LET first == ReadBytes(file.data, 1)
        rows  == ReadRows(file.data, first.pos, Len(first.line),
                          <<bytesToBool(first.line)>>)
        hp1   == Append(hp, rows.init)
    IN  IF ~file.exists
        THEN [heap |-> hp, l |-> NoLife, err |-> "open", ok |-> TRUE]
        ELSE IF first.err # NoErr
        THEN [heap |-> hp, l |-> NoLife, err |-> first.err, ok |-> TRUE]
        ELSE IF rows.err # NoErr
        THEN [heap |-> hp, l |-> NoLife, err |-> rows.err, ok |-> TRUE]
        ELSE NewLife(hp1, Len(rows.init), Len(first.line), Len(hp1))

\* The bytes a pattern file is made of here: 'o', ' ' and '\n'.
Bytes == {AliveGlyph, DeadGlyph, LF}

Files == UNION {[1..n -> Bytes] : n \in 0..MaxFileLen}

\* Before the call: a file of at most MaxFileLen bytes, or no file at all.
InitLoad ==
    /\ \/ \E d \in Files :
             arg = [op |-> "NewLifeFromFile", exists |-> TRUE, data |-> d]
       \/ arg = [op |-> "NewLifeFromFile", exists |-> FALSE, data |-> <<>>]
    /\ heap = <<>>
    /\ l = NoLife
    /\ ctor = [h |-> 0, w |-> 0, init |-> <<>>, addr |-> 0]
    /\ calls = 0
    /\ wrote = {}
    /\ rejected = 0
    /\ out = NoOut
    /\ pc = "start"
    /\ ret = NoRet

\* main asks NewLifeFromFile("init.txt").
CallNewLifeFromFile ==
    /\ pc = "start"
    /\ arg.op = "NewLifeFromFile"
    /\ \E r \in {NewLifeFromFile(heap, arg)} :
           /\ heap' = r.heap
           /\ l' = r.l
           /\ ret' = [op |-> "NewLifeFromFile", ok |-> r.ok, err |-> r.err]
           /\ pc' = IF ~r.ok THEN "panic"
                    ELSE IF r.err = NoErr THEN "ready" ELSE "failed"
    /\ UNCHANGED <<ctor, calls, wrote, rejected, out, arg>>

NextLoad == CallNewLifeFromFile

SpecLoad == InitLoad /\ [][NextLoad]_vars

\* ================================================================ claims
\* What the claims speak of, stated apart from the operators above.

\* cs has exactly h rows of exactly w cells.
Shape(cs, h, w) == Len(cs) = h /\ \A i \in 1..Len(cs) : Len(cs[i]) = w

\* The toroidal index ((x mod n) + n) mod n; TLA+'s % is already the
\* mathematical modulus.
EffIndex(x, n) == ((x % n) + n) % n

\* The cell of an h x w array at the wrapped position (r, c).
Wrapped(cs, h, w, r, c) == cs[EffIndex(r, h) + 1][EffIndex(c, w) + 1]

\* Number of alive cells among the eight wrapped neighbours of (r, c).
Neighbours(cs, h, w, r, c) ==
    Cardinality({o \in ({-1, 0, 1} \X {-1, 0, 1}) \ {<<0, 0>>} :
                    Wrapped(cs, h, w, r + o[1], c + o[2])})

\* The B3/S23 rule.
Rule(cs, h, w, r, c) ==
    \/ Neighbours(cs, h, w, r, c) = 3
    \/ Neighbours(cs, h, w, r, c) = 2 /\ cs[r + 1][c + 1]

AllDead(cs) == \A i \in 1..Len(cs) : \A j \in 1..Len(cs[i]) : ~cs[i][j]

\* The lines of a file, each with its terminator; a last line may lack it.
RECURSIVE Lines(_)
Lines(d) ==
    IF d = <<>> THEN <<>>
    ELSE LET nl == {k \in 1..Len(d) : d[k] = LF}
         IN  IF nl = {} THEN <<d>>
             ELSE LET e == CHOOSE k \in nl : \A m \in nl : k <= m
                  IN  <<SubSeq(d, 1, e)>> \o Lines(SubSeq(d, e + 1, Len(d)))

EqualLines(ls) == \A k \in 1..Len(ls) : Len(ls[k]) = Len(ls[1])

\* C1: after creation and after any number of Life.Next calls, cur and next
\* both have the h and w given at construction, and each Field's h and w
\* are the shape of its cell array.
C1_DimsFixed ==
    pc = "ready" =>
        /\ l.cur.h = ctor.h /\ l.cur.w = ctor.w
        /\ l.next.h = ctor.h /\ l.next.w = ctor.w
        /\ Shape(heap[l.cur.cs], l.cur.h, l.cur.w)
        /\ Shape(heap[l.next.cs], l.next.h, l.next.w)

\* C2: every Life.Next call recomputes every cell: no Set it makes is
\* rejected, and the new current buffer holds, at every position of the old
\* one, NextGen of that position on the old one.
C2_FullRecompute ==
    [][calls' = calls + 1 =>
         /\ pc' = "ready"
         /\ rejected' = 0
         /\ \A r \in 0..(l.cur.h - 1), c \in 0..(l.cur.w - 1) :
               /\ InRange(heap'[l'.cur.cs], r, c)
               /\ heap'[l'.cur.cs][r + 1][c + 1]
                     = NextGen(heap, l.cur, r, c).val]_vars

\* C3: Alive never fails, returns the cell at the wrapped index for every
\* integer row and column, and so agrees with itself one height further
\* down and one width further right.
C3_AliveTotalPeriodic ==
    ret.op = "Alive" =>
        /\ ret.ok
        /\ ret.val = Wrapped(heap[l.cur.cs], l.cur.h, l.cur.w, arg.r, arg.c)
        /\ Alive(heap, l.cur, arg.r + l.cur.h, arg.c)
              = [ok |-> TRUE, val |-> ret.val]
        /\ Alive(heap, l.cur, arg.r, arg.c + l.cur.w)
              = [ok |-> TRUE, val |-> ret.val]

\* C4: NextGen at a cell of the grid is true iff the cell has exactly three
\* alive wrapped neighbours, or exactly two and is alive itself; the call
\* leaves the field as it was built.
C4_NextGenRule ==
    ret.op = "NextGen" =>
        /\ ret.ok
        /\ ret.val = Rule(ctor.init, ctor.h, ctor.w, arg.r, arg.c)
        /\ l.cur = [cs |-> ctor.addr, w |-> ctor.w, h |-> ctor.h]
        /\ heap[l.cur.cs] = ctor.init

\* A cell on the edge that survives with two neighbours, one of them
\* reached through the wrap.
C4_Witness ==
    /\ ret.op = "NextGen" /\ ret.ok /\ ret.val
    /\ arg.r = 0 /\ arg.c = 0
    /\ ctor.h >= 3 /\ ctor.w >= 3
    /\ Neighbours(ctor.init, ctor.h, ctor.w, 0, 0) = 2
    /\ ctor.init[ctor.h][1]

\* C5: NewLife returns an error and no Life, without a panic, for every
\* pattern that is not exactly h rows of exactly w columns.
C5_RejectsMismatch ==
    (ret.op = "NewLife" /\ ~Shape(arg.init, arg.h, arg.w)) =>
        /\ ret.ok
        /\ ret.err # NoErr
        /\ l = NoLife

\* C6: NewLifeFromFile returns an error and no Life when there is no line,
\* or when a line after the first, the last one included, has another
\* length than the first.
C6_RejectsMalformed ==
    (/\ ret.op = "NewLifeFromFile" /\ arg.exists
     /\ \/ Lines(arg.data) = <<>>
        \/ ~EqualLines(Lines(arg.data))) =>
        /\ ret.ok
        /\ ret.err # NoErr
        /\ l = NoLife

\* C7: NewLifeFromFile, given H lines of one length W, returns a Life at
\* generation 0 whose grid is H x W and alive exactly where the lines have 'o'.
C7_LoadsPattern ==
    (/\ ret.op = "NewLifeFromFile" /\ arg.exists
     /\ Lines(arg.data) # <<>>
     /\ EqualLines(Lines(arg.data))) =>
        LET ls == Lines(arg.data)
        IN  /\ ret.ok
            /\ ret.err = NoErr
            /\ l.gen = 0
            /\ l.cur.h = Len(ls) /\ l.cur.w = Len(ls[1])
            /\ Shape(heap[l.cur.cs], Len(ls), Len(ls[1]))
            /\ \A r \in 1..Len(ls) : \A c \in 1..Len(ls[1]) :
                  heap[l.cur.cs][r][c] = (ls[r][c] = AliveGlyph)

\* C8: the beacon, on any grid that holds it, is back to its first
\* configuration and size after two Life.Next calls and differs from it
\* after one.
C8_BeaconPeriod2 ==
    (/\ <<ctor.h, ctor.w>> \in BeaconDims
     /\ ctor.init = Beacon(ctor.h, ctor.w)) =>
        /\ calls = 1 => heap[l.cur.cs] # ctor.init
        /\ calls = 2 => /\ l.cur.h = ctor.h /\ l.cur.w = ctor.w
                        /\ heap[l.cur.cs] = ctor.init

\* C9: the generation counter is the number of Life.Next calls made so
\* far: 0 at creation, one more after each call whatever the pattern, and
\* untouched by anything else.
C9_GenCountsCalls == pc = "ready" => l.gen = calls

\* Two calls on a grid that was dead from the start, with a frame printed
\* in between.
C9_Witness ==
    /\ calls = 2 /\ l.gen = 2
    /\ AllDead(ctor.init) /\ AllDead(heap[l.cur.cs])
    /\ out.gen = 1

====
